---- MODULE Spec2Model ----
(***************************************************************************)
(* Model of SpecChecker-Int (src/App.tsx, src/main.js): the ISR catalog,   *)
(* the control rule catalog, the two draft forms and the handlers that     *)
(* mutate them, the read-only helpers that resolve a rule's target and     *)
(* description and the JSON preview, and around them the rest of the App   *)
(* component: views, project, issue list and the analysis run served by    *)
(* the main process.                                                       *)
(*                                                                         *)
(* JavaScript objects are records; a key whose value is undefined is       *)
(* modelled as an absent key.  Strings are TLA+ strings, except the        *)
(* hardwareId of an ISR, which is a sequence of one-character strings so   *)
(* that "parses as an integer" can be computed.                            *)
(*                                                                         *)
(* The specifications share the actions: Spec is the configuration form,   *)
(* SpecApp adds the handlers of the rest of the App, SpecRender applies    *)
(* the read-only helpers to the rules a catalog can hold, SpecRuleForm     *)
(* feeds the rule form the numbers its inputs accept, SpecDelete calls the *)
(* delete handlers with ids of either catalog and of none, and             *)
(* SpecAnalysis is the analysis run under fair scheduling.                 *)
(***************************************************************************)
EXTENDS Integers, Sequences, FiniteSets, TLC

VARIABLES
  isrList,        \* useState<ISRConfig[]>
  controlRules,   \* useState<ControlRule[]>
  newISR,         \* useState<Partial<ISRConfig>>, the draft ISR
  newRule,        \* useState<Partial<ControlRule>>, the draft rule
  now,            \* the wall clock read by Date.now()
  steps,          \* number of user actions taken so far
  lastOp,         \* history: the last handler that ran and its argument
  isElectron,     \* window.electronAPI exists (desktop build)
  view,           \* useState: the view shown
  projectPath,    \* useState<string | null>, "" for null
  issues,         \* useState<Issue[]>, each issue as [id, status]
  isAnalyzing,    \* useState(false)
  analysisProgress,   \* useState(0)
  isSaved,        \* useState(false)
  openCall,       \* where the pending handleOpenProject call waits
  runCall,        \* where the pending handleRunAnalysis call waits
  engine,         \* main process: progress steps sent by the running
                  \* run-analysis-engine handler, -1 when none runs
  resultsFile,    \* spec_checker_results.json of the project on disk
  ipc,            \* messages from the main process to the renderer in flight
  saveTimers,     \* pending setTimeout callbacks of handleSaveConfig
  reader,         \* the file the FileReader of handleFileUpload is reading
  rendered        \* what the last render pass of SpecRender produced

formVars == <<isrList, controlRules, newISR, newRule, now>>

shellVars ==
  <<isElectron, view, projectPath, issues, isAnalyzing, analysisProgress,
    isSaved, openCall, runCall, engine, resultsFile, ipc,
    saveTimers, reader, rendered>>

vars == <<formVars, steps, lastOp, shellVars>>

----------------------------------------------------------------------------
(* Bounds *)

MaxSteps == 5       \* user actions per behaviour

(* Date.now() of the first render; any value above the seed ids *)
ClockStart == 100

----------------------------------------------------------------------------
(* JavaScript object helpers *)

Has(o, k) == k \in DOMAIN o

\* { ...o, ...upd }
Merge(o, upd) ==
  [k \in DOMAIN o \cup DOMAIN upd |-> IF k \in DOMAIN upd THEN upd[k] ELSE o[k]]

\* { ...o, k: undefined }
Without(o, k) == [x \in DOMAIN o \ {k} |-> o[x]]

\* !o.k for a string-valued key: undefined and '' are falsy
Falsy(o, k) == ~Has(o, k) \/ o[k] = ""

\* `${o.k}` for a numeric key
ShowNum(o, k) == IF Has(o, k) THEN ToString(o[k]) ELSE "undefined"

\* `${o.k}` for a string key
ShowStr(o, k) == IF Has(o, k) THEN o[k] ELSE "undefined"

----------------------------------------------------------------------------
(* Seed catalogs and drafts *)

SeedIsrList ==
  << [id |-> "1", functionName |-> "SysTick_Handler", priority |-> 15,
      hardwareId |-> <<"-", "1">>, description |-> "System Tick Timer"],
     [id |-> "2", functionName |-> "USART1_IRQHandler", priority |-> 1,
      hardwareId |-> <<"3", "7">>, description |-> "High priority serial comms"] >>

SeedControlRules ==
  << [id |-> "1", mode |-> "FUNCTION", identifier |-> "disableisr",
      pattern |-> "ARG_MATCH", argIndex |-> 0, matchValue |-> "-1",
      action |-> "DISABLE", targetScope |-> "GLOBAL"],
     [id |-> "5", mode |-> "REGISTER", identifier |-> "IER",
      pattern |-> "REG_BIT_MAPPING", regBitMode |-> "DYNAMIC",
      regPolarity |-> "0_DISABLES", action |-> "ENABLE",
      targetScope |-> "SPECIFIC", targetDetail |-> "1 << N (Dynamic)"] >>

InitNewISR == [priority |-> 0, hardwareId |-> <<>>]

InitNewRule ==
  [mode |-> "FUNCTION", pattern |-> "SIMPLE", action |-> "DISABLE",
   targetScope |-> "GLOBAL", argIndex |-> 0, regBitMode |-> "FIXED",
   regBitIndex |-> 0, regPolarity |-> "1_DISABLES"]

----------------------------------------------------------------------------
(* Values the user types or selects in the forms *)

FunctionNameInputs == {"TIM2_IRQHandler"}
PriorityInputs     == {2}
HardwareIdInputs   == {<<"E", "X">>}
IdentifierInputs   == {"f"}
FunctionPatterns   == {"SIMPLE", "ARG_MATCH", "ARG_AS_ID"}
ArgIndexInputs     == {1}
MatchValueInputs   == {"0xFE"}
RegBitModes        == {"FIXED", "DYNAMIC"}
RegBitIndexInputs  == {5}
RegPolarities      == {"1_DISABLES", "0_DISABLES"}
Actions            == {"DISABLE", "ENABLE"}
TargetScopes       == {"GLOBAL", "SPECIFIC"}

IdsOf(list) == {list[i].id : i \in DOMAIN list}

\* the values Date.now() can return: the millisecond of the previous read
\* or a later one
DateNow == {now, now + 1}

----------------------------------------------------------------------------
\* the issues of constants.ts, shown when the App runs in a browser
MOCK_ISSUES ==
  << [id |-> "issue-001", status |-> "OPEN"],
     [id |-> "issue-002", status |-> "OPEN"],
     [id |-> "issue-003", status |-> "CONFIRMED"],
     [id |-> "issue-004", status |-> "FALSE_POSITIVE"],
     [id |-> "issue-005", status |-> "OPEN"],
     [id |-> "issue-006", status |-> "OPEN"],
     [id |-> "issue-007", status |-> "OPEN"] >>

\* the state of the configuration form after construction
FormInit ==
  /\ isrList = SeedIsrList
  /\ controlRules = SeedControlRules
  /\ newISR = InitNewISR
  /\ newRule = InitNewRule
  /\ now = ClockStart
  /\ steps = 0
  /\ lastOp = [op |-> "init", arg |-> "", ok |-> TRUE, n |-> 0]

\* the state of the rest of the App after construction and the mount effect
ShellInit ==
  /\ view = "dashboard"
  /\ projectPath = ""
  /\ issues = IF isElectron THEN <<>> ELSE MOCK_ISSUES
  /\ isAnalyzing = FALSE
  /\ analysisProgress = 0
  /\ isSaved = FALSE
  /\ openCall = "idle"
  /\ runCall = "idle"
  /\ engine = -1
  /\ resultsFile = "absent"
  /\ ipc = <<>>
  /\ saveTimers = 0
  /\ reader = ""
  /\ rendered = [pass |-> "none"]

\* the desktop application
Init ==
  /\ isElectron = TRUE
  /\ FormInit
  /\ ShellInit

\* o.k === v
Is(o, k, v) == Has(o, k) /\ o[k] = v

\* the rules of a catalog whose linkedIsrId is id
LinkedTo(rules, id) == {i \in DOMAIN rules : Is(rules[i], "linkedIsrId", id)}

\* every handler of the configuration form runs as one user action; it can
\* be clicked only while the progress modal (fixed inset-0) does not cover
\* the window, and it leaves the rest of the App alone.  lastOp records the
\* handler, its argument, whether it passed its guard and, for deleteISR,
\* how many rules were linked to the deleted id when it ran
UserStep(op, arg, ok) ==
  /\ steps < MaxSteps
  /\ ~isAnalyzing
  /\ UNCHANGED shellVars
  /\ steps' = steps + 1
  /\ lastOp' = [op |-> op, arg |-> arg, ok |-> ok,
                n |-> IF op = "deleteISR"
                      THEN Cardinality(LinkedTo(controlRules, arg)) ELSE 0]


----------------------------------------------------------------------------
(* ISR form *)

editFunctionName(v) ==
  /\ newISR' = Merge(newISR, [functionName |-> v])
  /\ newISR' # newISR
  /\ UserStep("edit", "", TRUE)
  /\ UNCHANGED <<isrList, controlRules, newRule, now>>

editPriority(n) ==
  /\ newISR' = Merge(newISR, [priority |-> n])
  /\ newISR' # newISR
  /\ UserStep("edit", "", TRUE)
  /\ UNCHANGED <<isrList, controlRules, newRule, now>>

editHardwareId(h) ==
  /\ newISR' = Merge(newISR, [hardwareId |-> h])
  /\ newISR' # newISR
  /\ UserStep("edit", "", TRUE)
  /\ UNCHANGED <<isrList, controlRules, newRule, now>>

\* variant: the new ISR is put in front of the catalog
addISRPrepends ==
  IF Falsy(newISR, "functionName")
  THEN /\ UserStep("addISR", "", FALSE)
       /\ UNCHANGED <<isrList, controlRules, newISR, newRule, now>>
  ELSE \E t \in DateNow :
         /\ now' = t
         /\ isrList' = <<Merge(newISR, [id |-> ToString(t)])>> \o isrList
         /\ newISR' = [priority |-> 0, functionName |-> "", description |-> "",
                       hardwareId |-> <<>>]
         /\ UserStep("addISR", ToString(t), TRUE)
         /\ UNCHANGED <<controlRules, newRule>>

\* variant: no functionName guard
addISRUnguarded ==
  \E t \in DateNow :
    /\ now' = t
    /\ isrList' = Append(isrList, Merge(newISR, [id |-> ToString(t)]))
    /\ newISR' = [priority |-> 0, functionName |-> "", description |-> "",
                  hardwareId |-> <<>>]
    /\ UserStep("addISR", ToString(t), TRUE)
    /\ UNCHANGED <<controlRules, newRule>>

addISR ==
  IF Falsy(newISR, "functionName")
  THEN /\ UserStep("addISR", "", FALSE)
       /\ UNCHANGED <<isrList, controlRules, newISR, newRule, now>>
  ELSE \E t \in DateNow :
         /\ now' = t
         /\ isrList' = Append(isrList, Merge(newISR, [id |-> ToString(t)]))
         /\ newISR' = [priority |-> 0, functionName |-> "", description |-> "",
                       hardwareId |-> <<>>]
         /\ UserStep("addISR", ToString(t), TRUE)
         /\ UNCHANGED <<controlRules, newRule>>

\* variant: the link is left in place
ClearLinkSkipped(r, id) == r

\* variant: clearing the link also resets the scope of the rule
ClearLinkResetsScope(r, id) ==
  IF Is(r, "linkedIsrId", id)
  THEN Merge(Without(r, "linkedIsrId"), [targetScope |-> "GLOBAL"])
  ELSE r

\* r.linkedIsrId === id ? { ...r, linkedIsrId: undefined } : r
ClearLink(r, id) ==
  IF Is(r, "linkedIsrId", id) THEN Without(r, "linkedIsrId") ELSE r

\* variant: only the ISR catalog is updated by the handler
deleteISRWithoutCascade(id) ==
  /\ LET keep(i) == i.id # id
     IN isrList' = SelectSeq(isrList, keep)
  /\ UserStep("deleteISR", id, TRUE)
  /\ UNCHANGED <<controlRules, newISR, newRule, now>>

deleteISR(id) ==
  /\ LET keep(i) == i.id # id
     IN isrList' = SelectSeq(isrList, keep)
  /\ controlRules' = [i \in DOMAIN controlRules |-> ClearLink(controlRules[i], id)]
  /\ UserStep("deleteISR", id, TRUE)
  /\ UNCHANGED <<newISR, newRule, now>>

----------------------------------------------------------------------------
(* Rule form.  A field can be edited only while the form renders it. *)

\* variant: the pattern of the draft is kept across the switch
switchModeKeepsPattern(mode) ==
  /\ newRule.mode # mode
  /\ newRule' =
       IF mode = "FUNCTION"
       THEN Merge(newRule, [mode |-> "FUNCTION", identifier |-> "",
                            targetScope |-> "GLOBAL"])
       ELSE Merge(newRule, [mode |-> "REGISTER", identifier |-> "",
                            regBitIndex |-> 0, regPolarity |-> "1_DISABLES",
                            targetScope |-> "GLOBAL"])
  /\ UserStep("switchMode", mode, TRUE)
  /\ UNCHANGED <<isrList, controlRules, newISR, now>>

switchMode(mode) ==
  /\ newRule.mode # mode
  /\ newRule' =
       IF mode = "FUNCTION"
       THEN Merge(newRule, [mode |-> "FUNCTION", pattern |-> "SIMPLE",
                            identifier |-> "", targetScope |-> "GLOBAL"])
       ELSE Merge(newRule, [mode |-> "REGISTER", pattern |-> "REG_BIT_MAPPING",
                            identifier |-> "", regBitIndex |-> 0,
                            regPolarity |-> "1_DISABLES", targetScope |-> "GLOBAL"])
  /\ UserStep("switchMode", mode, TRUE)
  /\ UNCHANGED <<isrList, controlRules, newISR, now>>

\* onChange of a rendered field: setNewRule({...newRule, [k]: v})
EditRule(upd) ==
  /\ newRule' = Merge(newRule, upd)
  /\ newRule' # newRule
  /\ UserStep("edit", "", TRUE)
  /\ UNCHANGED <<isrList, controlRules, newISR, now>>

editIdentifier(v) == EditRule([identifier |-> v])

editPattern(p) ==
  /\ newRule.mode = "FUNCTION"
  /\ EditRule([pattern |-> p])

editArgIndex(n) ==
  /\ newRule.mode = "FUNCTION"
  /\ newRule.pattern \in {"ARG_MATCH", "ARG_AS_ID"}
  /\ EditRule([argIndex |-> n])

editMatchValue(v) ==
  /\ newRule.mode = "FUNCTION"
  /\ newRule.pattern = "ARG_MATCH"
  /\ EditRule([matchValue |-> v])

editRegBitMode(b) ==
  /\ newRule.mode = "REGISTER"
  /\ EditRule([regBitMode |-> b])

editRegBitIndex(n) ==
  /\ newRule.mode = "REGISTER"
  /\ newRule.regBitMode = "FIXED"
  /\ EditRule([regBitIndex |-> n])

editRegPolarity(p) ==
  /\ newRule.mode = "REGISTER"
  /\ EditRule([regPolarity |-> p])

editAction(a) == EditRule([action |-> a])

editTargetScope(s) == EditRule([targetScope |-> s])

\* the condition under which the form renders the target ISR selector
LinkSelectorShown(draft) ==
  /\ draft.targetScope = "SPECIFIC"
  /\ draft.pattern # "ARG_AS_ID"
  /\ draft.regBitMode # "DYNAMIC"

\* the options of the selector: the placeholder '' and one per ISR
editLinkedIsrId(v) ==
  /\ LinkSelectorShown(newRule)
  /\ v \in {""} \cup IdsOf(isrList)
  /\ EditRule([linkedIsrId |-> v])

\* variant: the text is generated for a draft with a target ISR too
FinalDetailIgnoresLink(draft) ==
  IF Falsy(draft, "targetDetail")
  THEN IF draft.pattern = "ARG_AS_ID"
       THEN [targetDetail |-> "Dynamic (Matches HW ID)"]
       ELSE IF draft.pattern = "REG_BIT_MAPPING"
       THEN IF draft.regBitMode = "DYNAMIC"
            THEN [targetDetail |->
                    "Bit N (1 << N) [" \o
                    (IF draft.regPolarity = "1_DISABLES" THEN "Active Low"
                                                         ELSE "Active High") \o "]"]
            ELSE [targetDetail |->
                    "Bit " \o ShowNum(draft, "regBitIndex") \o " (" \o
                    (IF draft.regPolarity = "1_DISABLES" THEN "1=Off"
                                                         ELSE "0=Off") \o ")"]
       ELSE IF Has(draft, "targetDetail") THEN [targetDetail |-> draft.targetDetail]
            ELSE <<>>
  ELSE [targetDetail |-> draft.targetDetail]

\* targetDetail of the rule addRule stores; the result has the key
\* targetDetail only when finalDetail is defined
FinalDetail(draft) ==
  IF Falsy(draft, "targetDetail") /\ Falsy(draft, "linkedIsrId")
  THEN IF draft.pattern = "ARG_AS_ID"
       THEN [targetDetail |-> "Dynamic (Matches HW ID)"]
       ELSE IF draft.pattern = "REG_BIT_MAPPING"
       THEN IF draft.regBitMode = "DYNAMIC"
            THEN [targetDetail |->
                    "Bit N (1 << N) [" \o
                    (IF draft.regPolarity = "1_DISABLES" THEN "Active Low"
                                                         ELSE "Active High") \o "]"]
            ELSE [targetDetail |->
                    "Bit " \o ShowNum(draft, "regBitIndex") \o " (" \o
                    (IF draft.regPolarity = "1_DISABLES" THEN "1=Off"
                                                         ELSE "0=Off") \o ")"]
       ELSE IF Has(draft, "targetDetail") THEN [targetDetail |-> draft.targetDetail]
            ELSE <<>>
  ELSE IF Has(draft, "targetDetail") THEN [targetDetail |-> draft.targetDetail]
       ELSE <<>>

\* { ...newRule, targetDetail: finalDetail, id: Date.now().toString() }
NewRuleEntry(draft, id) ==
  Merge(Merge(Without(draft, "targetDetail"), FinalDetail(draft)), [id |-> id])

\* variant: the draft is reset to the SIMPLE pattern in either mode
ResetNewRuleSimple(draft) ==
  [mode |-> draft.mode, pattern |-> "SIMPLE",
   action |-> "DISABLE", targetScope |-> "GLOBAL", identifier |-> "",
   matchValue |-> "", argIndex |-> 0, regBitMode |-> "FIXED",
   regBitIndex |-> 0, regPolarity |-> "1_DISABLES", targetDetail |-> ""]

\* the draft after a successful addRule
ResetNewRule(draft) ==
  [mode |-> draft.mode,
   pattern |-> IF draft.mode = "REGISTER" THEN "REG_BIT_MAPPING" ELSE "SIMPLE",
   action |-> "DISABLE", targetScope |-> "GLOBAL", identifier |-> "",
   matchValue |-> "", argIndex |-> 0, regBitMode |-> "FIXED",
   regBitIndex |-> 0, regPolarity |-> "1_DISABLES", targetDetail |-> ""]

\* variant: no identifier guard
addRuleUnguarded ==
  \E t \in DateNow :
    /\ now' = t
    /\ controlRules' = Append(controlRules, NewRuleEntry(newRule, ToString(t)))
    /\ newRule' = ResetNewRule(newRule)
    /\ UserStep("addRule", ToString(t), TRUE)
    /\ UNCHANGED <<isrList, newISR>>

\* variant: the new rule is put in front of the catalog
addRulePrepends ==
  IF Falsy(newRule, "identifier")
  THEN /\ UserStep("addRule", "", FALSE)
       /\ UNCHANGED <<isrList, controlRules, newISR, newRule, now>>
  ELSE \E t \in DateNow :
         /\ now' = t
         /\ controlRules' = <<NewRuleEntry(newRule, ToString(t))>> \o controlRules
         /\ newRule' = ResetNewRule(newRule)
         /\ UserStep("addRule", ToString(t), TRUE)
         /\ UNCHANGED <<isrList, newISR>>

\* variant: a SPECIFIC rule is stored only with a target ISR
addRuleRequiresLink ==
  IF Falsy(newRule, "identifier")
     \/ (newRule.targetScope = "SPECIFIC" /\ Falsy(newRule, "linkedIsrId"))
  THEN /\ UserStep("addRule", "", FALSE)
       /\ UNCHANGED <<isrList, controlRules, newISR, newRule, now>>
  ELSE \E t \in DateNow :
         /\ now' = t
         /\ controlRules' = Append(controlRules, NewRuleEntry(newRule, ToString(t)))
         /\ newRule' = ResetNewRule(newRule)
         /\ UserStep("addRule", ToString(t), TRUE)
         /\ UNCHANGED <<isrList, newISR>>

addRule ==
  IF Falsy(newRule, "identifier")
  THEN /\ UserStep("addRule", "", FALSE)
       /\ UNCHANGED <<isrList, controlRules, newISR, newRule, now>>
  ELSE \E t \in DateNow :
         /\ now' = t
         /\ controlRules' = Append(controlRules, NewRuleEntry(newRule, ToString(t)))
         /\ newRule' = ResetNewRule(newRule)
         /\ UserStep("addRule", ToString(t), TRUE)
         /\ UNCHANGED <<isrList, newISR>>

\* variant: only the first rule with the id is removed
deleteRuleFirstMatch(id) ==
  /\ LET hits == {i \in DOMAIN controlRules : controlRules[i].id = id}
         first == CHOOSE i \in hits : \A j \in hits : i <= j
     IN controlRules' =
          IF hits = {} THEN controlRules
          ELSE SubSeq(controlRules, 1, first - 1)
               \o SubSeq(controlRules, first + 1, Len(controlRules))
  /\ UserStep("deleteRule", id, TRUE)
  /\ UNCHANGED <<isrList, newISR, newRule, now>>

deleteRule(id) ==
  /\ LET keep(r) == r.id # id
     IN controlRules' = SelectSeq(controlRules, keep)
  /\ UserStep("deleteRule", id, TRUE)
  /\ UNCHANGED <<isrList, newISR, newRule, now>>

----------------------------------------------------------------------------
(* Read-only helpers of the rule list and the JSON preview *)

\* isrList.find(i => i.id === id), as a sequence of zero or one ISR
FindIsr(id) ==
  LET hit(i) == i.id = id
      hits == SelectSeq(isrList, hit)
  IN IF hits = <<>> THEN <<>> ELSE <<Head(hits)>>

\* variant: the stored scope and link are consulted before the dynamic
\* patterns
getLinkedIsrNameScopeFirst(rule) ==
  IF Is(rule, "targetScope", "GLOBAL")
  THEN [kind |-> "text", text |-> "Global"]
  ELSE IF ~Falsy(rule, "linkedIsrId")
  THEN LET isr == FindIsr(rule.linkedIsrId)
       IN IF isr # <<>> THEN [kind |-> "link", text |-> isr[1].functionName]
                        ELSE [kind |-> "unknown", text |-> "Unknown ISR"]
  ELSE IF Is(rule, "pattern", "ARG_AS_ID")
  THEN [kind |-> "text", text |-> "Dynamic (By HW ID)"]
  ELSE IF Is(rule, "mode", "REGISTER") /\ Is(rule, "regBitMode", "DYNAMIC")
  THEN [kind |-> "text", text |-> "Dynamic (By Bit Index)"]
  ELSE [kind |-> "text",
        text |-> IF ~Falsy(rule, "targetDetail") THEN rule.targetDetail
                                                 ELSE "Specific"]

\* variant: a rule without a usable link falls back to the global label
getLinkedIsrNameGlobalFallback(rule) ==
  IF Is(rule, "pattern", "ARG_AS_ID")
  THEN [kind |-> "text", text |-> "Dynamic (By HW ID)"]
  ELSE IF Is(rule, "mode", "REGISTER") /\ Is(rule, "regBitMode", "DYNAMIC")
  THEN [kind |-> "text", text |-> "Dynamic (By Bit Index)"]
  ELSE IF Is(rule, "targetScope", "GLOBAL")
  THEN [kind |-> "text", text |-> "Global"]
  ELSE IF ~Falsy(rule, "linkedIsrId")
  THEN LET isr == FindIsr(rule.linkedIsrId)
       IN IF isr # <<>> THEN [kind |-> "link", text |-> isr[1].functionName]
                        ELSE [kind |-> "text", text |-> "Global"]
  ELSE [kind |-> "text",
        text |-> IF ~Falsy(rule, "targetDetail") THEN rule.targetDetail
                                                 ELSE "Global"]

\* variant: the functionName of the ISR found is read without the test
\* that one was found
getLinkedIsrNameUncheckedFind(rule) ==
  IF Is(rule, "pattern", "ARG_AS_ID")
  THEN [kind |-> "text", text |-> "Dynamic (By HW ID)"]
  ELSE IF Is(rule, "mode", "REGISTER") /\ Is(rule, "regBitMode", "DYNAMIC")
  THEN [kind |-> "text", text |-> "Dynamic (By Bit Index)"]
  ELSE IF Is(rule, "targetScope", "GLOBAL")
  THEN [kind |-> "text", text |-> "Global"]
  ELSE IF ~Falsy(rule, "linkedIsrId")
  THEN LET isr == FindIsr(rule.linkedIsrId)
       IN IF isr # <<>> THEN [kind |-> "link", text |-> isr[1].functionName]
                        ELSE [kind |-> "TypeError", text |-> ""]
  ELSE [kind |-> "text",
        text |-> IF ~Falsy(rule, "targetDetail") THEN rule.targetDetail
                                                 ELSE "Specific"]

\* variant: a SPECIFIC rule without a link shows the unknown-ISR marker
getLinkedIsrNameUnknownFallback(rule) ==
  IF Is(rule, "pattern", "ARG_AS_ID")
  THEN [kind |-> "text", text |-> "Dynamic (By HW ID)"]
  ELSE IF Is(rule, "mode", "REGISTER") /\ Is(rule, "regBitMode", "DYNAMIC")
  THEN [kind |-> "text", text |-> "Dynamic (By Bit Index)"]
  ELSE IF Is(rule, "targetScope", "GLOBAL")
  THEN [kind |-> "text", text |-> "Global"]
  ELSE IF ~Falsy(rule, "linkedIsrId")
  THEN LET isr == FindIsr(rule.linkedIsrId)
       IN IF isr # <<>> THEN [kind |-> "link", text |-> isr[1].functionName]
                        ELSE [kind |-> "unknown", text |-> "Unknown ISR"]
  ELSE [kind |-> "unknown", text |-> "Unknown ISR"]

\* the target label of a rule: plain text, a link span carrying the ISR's
\* functionName, or the red 'Unknown ISR' span
getLinkedIsrName(rule) ==
  IF Is(rule, "pattern", "ARG_AS_ID")
  THEN [kind |-> "text", text |-> "Dynamic (By HW ID)"]
  ELSE IF Is(rule, "mode", "REGISTER") /\ Is(rule, "regBitMode", "DYNAMIC")
  THEN [kind |-> "text", text |-> "Dynamic (By Bit Index)"]
  ELSE IF Is(rule, "targetScope", "GLOBAL")
  THEN [kind |-> "text", text |-> "Global"]
  ELSE IF ~Falsy(rule, "linkedIsrId")
  THEN LET isr == FindIsr(rule.linkedIsrId)
       IN IF isr # <<>> THEN [kind |-> "link", text |-> isr[1].functionName]
                        ELSE [kind |-> "unknown", text |-> "Unknown ISR"]
  ELSE [kind |-> "text",
        text |-> IF ~Falsy(rule, "targetDetail") THEN rule.targetDetail
                                                 ELSE "Specific"]

\* variant: the polarity test of the register branch is inverted
renderRuleDescriptionInverted(rule) ==
  IF Is(rule, "mode", "FUNCTION")
  THEN IF Is(rule, "pattern", "SIMPLE")
       THEN [kind |-> "text", text |-> "call " \o ShowStr(rule, "identifier") \o "()"]
       ELSE IF Is(rule, "pattern", "ARG_MATCH")
       THEN [kind |-> "text",
             text |-> "arg[" \o ShowNum(rule, "argIndex") \o "] == "
                      \o ShowStr(rule, "matchValue")]
       ELSE IF Is(rule, "pattern", "ARG_AS_ID")
       THEN [kind |-> "text",
             text |-> "arg[" \o ShowNum(rule, "argIndex") \o "] is ISR HW ID"]
       ELSE [kind |-> "text", text |-> ShowStr(rule, "pattern")]
  ELSE IF Is(rule, "pattern", "REG_BIT_MAPPING")
       THEN [kind |-> "bits",
             index |-> IF Is(rule, "regBitMode", "DYNAMIC") THEN "Dyn (1 << N)"
                       ELSE "Bit " \o ShowNum(rule, "regBitIndex"),
             logic |-> IF Is(rule, "regPolarity", "0_DISABLES") THEN "1=Disable"
                                                                ELSE "1=Enable"]
       ELSE IF Is(rule, "pattern", "WRITE_VAL")
       THEN [kind |-> "text", text |-> "write == " \o ShowStr(rule, "matchValue")]
       ELSE [kind |-> "text", text |-> ShowStr(rule, "pattern")]

\* the match description of a rule: plain text, or for a register bit
\* mapping the pair of spans (index, logic); the Chinese words of the plain
\* texts are given in English
renderRuleDescription(rule) ==
  IF Is(rule, "mode", "FUNCTION")
  THEN IF Is(rule, "pattern", "SIMPLE")
       THEN [kind |-> "text", text |-> "call " \o ShowStr(rule, "identifier") \o "()"]
       ELSE IF Is(rule, "pattern", "ARG_MATCH")
       THEN [kind |-> "text",
             text |-> "arg[" \o ShowNum(rule, "argIndex") \o "] == "
                      \o ShowStr(rule, "matchValue")]
       ELSE IF Is(rule, "pattern", "ARG_AS_ID")
       THEN [kind |-> "text",
             text |-> "arg[" \o ShowNum(rule, "argIndex") \o "] is ISR HW ID"]
       ELSE [kind |-> "text", text |-> ShowStr(rule, "pattern")]
  ELSE IF Is(rule, "pattern", "REG_BIT_MAPPING")
       THEN [kind |-> "bits",
             index |-> IF Is(rule, "regBitMode", "DYNAMIC") THEN "Dyn (1 << N)"
                       ELSE "Bit " \o ShowNum(rule, "regBitIndex"),
             logic |-> IF Is(rule, "regPolarity", "1_DISABLES") THEN "1=Disable"
                                                                ELSE "1=Enable"]
       ELSE IF Is(rule, "pattern", "WRITE_VAL")
       THEN [kind |-> "text", text |-> "write == " \o ShowStr(rule, "matchValue")]
       ELSE [kind |-> "text", text |-> ShowStr(rule, "pattern")]

\* the decimal digits
Digits == {"0", "1", "2", "3", "4", "5", "6", "7", "8", "9"}

DigitValue(c) == CHOOSE n \in 0..9 : ToString(n) = c

\* the string is an optional minus sign followed by one or more digits
IsIntegerString(h) ==
  LET body == IF h # <<>> /\ Head(h) = "-" THEN Tail(h) ELSE h
  IN body # <<>> /\ \A i \in DOMAIN body : body[i] \in Digits

RECURSIVE DigitsValue(_)
DigitsValue(body) ==
  IF body = <<>> THEN 0
  ELSE 10 * DigitsValue(SubSeq(body, 1, Len(body) - 1)) + DigitValue(body[Len(body)])

\* the integer an integer string denotes
IntegerValue(h) ==
  IF Head(h) = "-" THEN 0 - DigitsValue(Tail(h)) ELSE DigitsValue(h)

\* a hardware id as an integer when it parses as one, else as the string
Canonical(h) ==
  IF IsIntegerString(h) THEN [t |-> "number", n |-> IntegerValue(h)]
                        ELSE [t |-> "string", s |-> h]

\* the keys of ISRConfig and ControlRule that hold a number
NumberKeys == {"priority", "argIndex", "regBitIndex"}

\* variant: hardwareId is converted to a number when it parses as one
JsonObjectCanonical(o) ==
  [k \in DOMAIN o |-> IF k \in NumberKeys THEN [t |-> "number", n |-> o[k]]
                      ELSE IF k = "hardwareId" THEN Canonical(o[k])
                      ELSE [t |-> "string", s |-> o[k]]]

\* JSON.stringify of one catalog entry: every present key is emitted with
\* the JSON type of its value, a string as a string and a number as a number
JsonObject(o) ==
  [k \in DOMAIN o |-> IF k \in NumberKeys THEN [t |-> "number", n |-> o[k]]
                                          ELSE [t |-> "string", s |-> o[k]]]

\* variant: the draft rule is emitted behind the rules of the catalog
ConfigPreviewWithDraft ==
  [isrs  |-> [i \in DOMAIN isrList |-> JsonObject(isrList[i])],
   rules |-> [i \in DOMAIN controlRules |-> JsonObject(controlRules[i])]
             \o <<JsonObject(newRule)>>]

\* JSON.stringify({ isrs: isrList, rules: controlRules }, null, 2)
ConfigPreview ==
  [isrs  |-> [i \in DOMAIN isrList |-> JsonObject(isrList[i])],
   rules |-> [i \in DOMAIN controlRules |-> JsonObject(controlRules[i])]]

----------------------------------------------------------------------------
(* The rest of the App component and the main process.  A handler is       *)
(* modelled wherever it is invoked from: the view decides only which       *)
(* buttons are on screen.  An asynchronous handler is one action per       *)
(* stretch between two awaits; at most one call of each asynchronous       *)
(* handler is pending at a time.                                           *)

\* a click on a button outside the configuration form
ShellStep(op, arg, ok) ==
  /\ steps < MaxSteps
  /\ ~isAnalyzing
  /\ steps' = steps + 1
  /\ lastOp' = [op |-> op, arg |-> arg, ok |-> ok, n |-> 0]
  /\ UNCHANGED formVars

\* a continuation after an await, a timer, a message or a step of the main
\* process: no user action
Background == UNCHANGED <<formVars, steps, lastOp>>

\* the directory chosen in the dialog, "" when the dialog is cancelled
PathInputs == {"", "/proj"}

\* what the chosen import file holds: exported project data, or text that
\* is not JSON
FileInputs == {"project", "invalid"}

\* the issues of the imported project data
ImportedIssues == << [id |-> "issue-001", status |-> "CONFIRMED"] >>

\* the issues of mockEngineOutput
EngineIssues ==
  << [id |-> "eng-001", status |-> "OPEN"], [id |-> "eng-002", status |-> "OPEN"],
     [id |-> "eng-003", status |-> "OPEN"], [id |-> "eng-004", status |-> "OPEN"] >>

\* the progress values of the steps of the engine
EngineSteps == <<10, 30, 50, 70, 90, 100>>

\* what read-file-content returns for the results file: the engine output,
\* JSON without an issues field, or the 'Error reading file' text
ReadResults == {"issues", "noissues", "error"}

\* the status the user sets in the issue detail
StatusInputs == {"FALSE_POSITIVE"}

\* the issue shown in the detail pane: the first of the list
SelectedIssue == IF issues = <<>> THEN {} ELSE {issues[1].id}

handleSaveConfig ==
  /\ isSaved' = TRUE
  /\ saveTimers' = saveTimers + 1
  /\ ShellStep("handleSaveConfig", "", TRUE)
  /\ UNCHANGED <<isElectron, view, projectPath, issues, isAnalyzing,
                 analysisProgress, openCall, runCall, engine,
                 resultsFile, ipc, reader, rendered>>

\* setTimeout(() => setIsSaved(false), 2000)
saveTimeout ==
  /\ saveTimers > 0
  /\ isSaved' = FALSE
  /\ saveTimers' = saveTimers - 1
  /\ Background
  /\ UNCHANGED <<isElectron, view, projectPath, issues, isAnalyzing,
                 analysisProgress, openCall, runCall, engine,
                 resultsFile, ipc, reader, rendered>>

\* handleOpenProject up to its first await
handleOpenProject ==
  /\ openCall = "idle"
  /\ IF ~isElectron
     THEN /\ ShellStep("handleOpenProject", "", FALSE)
          /\ UNCHANGED openCall
     ELSE /\ ShellStep("handleOpenProject", "", TRUE)
          /\ openCall' = "dialog"
  /\ UNCHANGED <<isElectron, view, projectPath, issues, isAnalyzing,
                 analysisProgress, isSaved, runCall, engine,
                 resultsFile, ipc, saveTimers, reader, rendered>>

\* open-project-dialog returns
openDialogClosed(path) ==
  /\ openCall = "dialog"
  /\ IF path = ""
     THEN /\ openCall' = "idle"
          /\ UNCHANGED <<projectPath, issues>>
     ELSE /\ projectPath' = path
          /\ issues' = <<>>
          /\ openCall' = "tree"
  /\ Background
  /\ UNCHANGED <<isElectron, view, isAnalyzing, analysisProgress, isSaved, runCall, engine, resultsFile, ipc,
                 saveTimers, reader, rendered>>

\* read-project-tree returns
openTreeLoaded ==
  /\ openCall = "tree"
  /\ view' = "code"
  /\ openCall' = "idle"
  /\ Background
  /\ UNCHANGED <<isElectron, projectPath, issues, isAnalyzing, analysisProgress,
                 isSaved, runCall, engine, resultsFile, ipc,
                 saveTimers, reader, rendered>>

\* handleRunAnalysis up to its first await; the button is disabled without
\* a project
handleRunAnalysis ==
  /\ projectPath # ""
  /\ isElectron
  /\ runCall = "idle"
  /\ isAnalyzing' = TRUE
  /\ analysisProgress' = 0
  /\ runCall' = "engine"
  /\ engine' = 0
  /\ ShellStep("handleRunAnalysis", "", TRUE)
  /\ UNCHANGED <<isElectron, view, projectPath, issues, isSaved, openCall, resultsFile, ipc, saveTimers,
                 reader, rendered>>

\* run-analysis-engine: one turn of the loop, 800 ms and one send
engineStep ==
  /\ engine \in 0..(Len(EngineSteps) - 1)
  /\ engine' = engine + 1
  /\ ipc' = Append(ipc, [type |-> "progress", progress |-> EngineSteps[engine + 1]])
  /\ Background
  /\ UNCHANGED <<isElectron, view, projectPath, issues, isAnalyzing,
                 analysisProgress, isSaved, openCall, runCall,
                 resultsFile, saveTimers, reader, rendered>>

\* variant: the handler writes the results once the 90 % step is sent
engineFinishEarly(written) ==
  /\ engine \in {Len(EngineSteps) - 1, Len(EngineSteps)}
  /\ engine' = -1
  /\ resultsFile' = IF written THEN "written" ELSE resultsFile
  /\ ipc' = Append(ipc, [type |-> "reply", ok |-> written])
  /\ Background
  /\ UNCHANGED <<isElectron, view, projectPath, issues, isAnalyzing,
                 analysisProgress, isSaved, openCall, runCall,
                 saveTimers, reader, rendered>>

\* run-analysis-engine after the loop: writeFileSync writes the results and
\* the handler returns their path, or writeFileSync throws and the invoke
\* is rejected
engineFinish(written) ==
  /\ engine = Len(EngineSteps)
  /\ engine' = -1
  /\ resultsFile' = IF written THEN "written" ELSE resultsFile
  /\ ipc' = Append(ipc, [type |-> "reply", ok |-> written])
  /\ Background
  /\ UNCHANGED <<isElectron, view, projectPath, issues, isAnalyzing,
                 analysisProgress, isSaved, openCall, runCall,
                 saveTimers, reader, rendered>>

\* the analysis-progress listener
onAnalysisProgress ==
  /\ ipc # <<>>
  /\ Head(ipc).type = "progress"
  /\ analysisProgress' = Head(ipc).progress
  /\ ipc' = Tail(ipc)
  /\ Background
  /\ UNCHANGED <<isElectron, view, projectPath, issues, isAnalyzing, isSaved, openCall, runCall, engine, resultsFile,
                 saveTimers, reader, rendered>>

\* variant: no catch block, a rejected engine call leaves the modal up
onEngineReturnedNoCatch ==
  /\ ipc # <<>>
  /\ Head(ipc).type = "reply"
  /\ runCall = "engine"
  /\ isAnalyzing' = IF Head(ipc).ok THEN FALSE ELSE isAnalyzing
  /\ runCall' = IF Head(ipc).ok THEN "reading" ELSE "idle"
  /\ ipc' = Tail(ipc)
  /\ Background
  /\ UNCHANGED <<isElectron, view, projectPath, issues, analysisProgress,
                 isSaved, openCall, engine, resultsFile,
                 saveTimers, reader, rendered>>

\* handleRunAnalysis after the engine call: on to read-file-content, or
\* into the catch block
onEngineReturned ==
  /\ ipc # <<>>
  /\ Head(ipc).type = "reply"
  /\ runCall = "engine"
  /\ isAnalyzing' = FALSE
  /\ runCall' = IF Head(ipc).ok THEN "reading" ELSE "idle"
  /\ ipc' = Tail(ipc)
  /\ Background
  /\ UNCHANGED <<isElectron, view, projectPath, issues, analysisProgress,
                 isSaved, openCall, engine, resultsFile,
                 saveTimers, reader, rendered>>

\* read-file-content of the results file in the main process: its reply
\* carries what the file is found to hold
readFileContent(result) ==
  /\ runCall = "reading"
  /\ runCall' = "parsing"
  /\ ipc' = Append(ipc, [type |-> "content", result |-> result])
  /\ Background
  /\ UNCHANGED <<isElectron, view, projectPath, issues, isAnalyzing,
                 analysisProgress, isSaved, openCall, engine, resultsFile,
                 saveTimers, reader, rendered>>

\* handleRunAnalysis after read-file-content: JSON.parse and the issues of
\* the result, or the catch block
onResultRead ==
  /\ ipc # <<>>
  /\ Head(ipc).type = "content"
  /\ runCall = "parsing"
  /\ runCall' = "idle"
  /\ ipc' = Tail(ipc)
  /\ IF Head(ipc).result = "issues"
     THEN /\ issues' = EngineIssues
          /\ view' = "issues"
          /\ UNCHANGED isAnalyzing
     ELSE IF Head(ipc).result = "noissues"
     THEN UNCHANGED <<issues, view, isAnalyzing>>
     ELSE /\ isAnalyzing' = FALSE
          /\ UNCHANGED <<issues, view>>
  /\ Background
  /\ UNCHANGED <<isElectron, projectPath, analysisProgress, isSaved, openCall,
                 engine, resultsFile, saveTimers, reader, rendered>>

\* handleFileUpload: the chosen file is handed to the FileReader
handleFileUpload(file) ==
  /\ reader = ""
  /\ reader' = file
  /\ ShellStep("handleFileUpload", file, TRUE)
  /\ UNCHANGED <<isElectron, view, projectPath, issues, isAnalyzing,
                 analysisProgress, isSaved, openCall, runCall,
                 engine, resultsFile, ipc, saveTimers, rendered>>

\* variant: the config section of the imported project data is loaded too
readerLoadedWithConfig ==
  /\ reader # ""
  /\ reader' = ""
  /\ IF reader = "project"
     THEN /\ issues' = ImportedIssues
          /\ view' = "issues"
          /\ isrList' = SeedIsrList
          /\ controlRules' = SeedControlRules
     ELSE UNCHANGED <<issues, view, isrList, controlRules>>
  /\ UNCHANGED <<newISR, newRule, now, steps, lastOp>>
  /\ UNCHANGED <<isElectron, projectPath, isAnalyzing, analysisProgress,
                 isSaved, openCall, runCall, engine,
                 resultsFile, ipc, saveTimers, rendered>>

\* reader.onload
readerLoaded ==
  /\ reader # ""
  /\ reader' = ""
  /\ IF reader = "project"
     THEN /\ issues' = ImportedIssues
          /\ view' = "issues"
     ELSE UNCHANGED <<issues, view>>
  /\ Background
  /\ UNCHANGED <<isElectron, projectPath, isAnalyzing, analysisProgress,
                 isSaved, openCall, runCall, engine,
                 resultsFile, ipc, saveTimers, rendered>>

handleUpdateStatus(id, newStatus) ==
  /\ issues' = [i \in DOMAIN issues |->
                  IF issues[i].id = id THEN Merge(issues[i], [status |-> newStatus])
                                       ELSE issues[i]]
  /\ issues' # issues
  /\ ShellStep("handleUpdateStatus", id, TRUE)
  /\ UNCHANGED <<isElectron, view, projectPath, isAnalyzing, analysisProgress,
                 isSaved, openCall, runCall, engine,
                 resultsFile, ipc, saveTimers, reader, rendered>>

\* one row of the rule list
RuleRow(rule) ==
  [description |-> renderRuleDescription(rule), target |-> getLinkedIsrName(rule)]

\* variant: the render pass drops the links to ISRs that are gone
renderRuleListRepairing ==
  /\ view = "settings"
  /\ rendered' = [pass |-> "rules",
                  rows |-> [i \in DOMAIN controlRules |-> RuleRow(controlRules[i])]]
  /\ rendered' # rendered
  /\ controlRules' =
       [i \in DOMAIN controlRules |->
          IF Has(controlRules[i], "linkedIsrId")
             /\ controlRules[i].linkedIsrId \notin IdsOf(isrList)
          THEN Without(controlRules[i], "linkedIsrId") ELSE controlRules[i]]
  /\ UNCHANGED <<isrList, newISR, newRule, now, steps, lastOp>>
  /\ UNCHANGED <<isElectron, view, projectPath, issues, isAnalyzing,
                 analysisProgress, isSaved, openCall, runCall,
                 engine, resultsFile, ipc, saveTimers, reader>>

\* a render pass over the rule list of the settings view
renderRuleList ==
  /\ view = "settings"
  /\ rendered' = [pass |-> "rules",
                  rows |-> [i \in DOMAIN controlRules |-> RuleRow(controlRules[i])]]
  /\ rendered' # rendered
  /\ UNCHANGED <<formVars, steps, lastOp>>
  /\ UNCHANGED <<isElectron, view, projectPath, issues, isAnalyzing,
                 analysisProgress, isSaved, openCall, runCall,
                 engine, resultsFile, ipc, saveTimers, reader>>

\* a render pass over the JSON preview of the settings view, while the
\* preview is shown
renderConfigPreview ==
  /\ view = "settings"
  /\ rendered' = [pass |-> "preview", json |-> ConfigPreview]
  /\ rendered' # rendered
  /\ UNCHANGED <<formVars, steps, lastOp>>
  /\ UNCHANGED <<isElectron, view, projectPath, issues, isAnalyzing,
                 analysisProgress, isSaved, openCall, runCall,
                 engine, resultsFile, ipc, saveTimers, reader>>

----------------------------------------------------------------------------
\* the handlers that change a catalog, and the edits of the fields their
\* guards read
CatalogNext ==
  \/ \E v \in FunctionNameInputs : editFunctionName(v)
  \/ addISR
  \/ \E id \in IdsOf(isrList) : deleteISR(id)
  \/ \E m \in {"FUNCTION", "REGISTER"} : switchMode(m)
  \/ \E v \in IdentifierInputs : editIdentifier(v)
  \/ addRule
  \/ \E id \in IdsOf(controlRules) : deleteRule(id)

\* the edits of the other fields of the two drafts
DraftNext ==
  \/ \E n \in PriorityInputs : editPriority(n)
  \/ \E h \in HardwareIdInputs : editHardwareId(h)
  \/ \E p \in FunctionPatterns : editPattern(p)
  \/ \E n \in ArgIndexInputs : editArgIndex(n)
  \/ \E v \in MatchValueInputs : editMatchValue(v)
  \/ \E b \in RegBitModes : editRegBitMode(b)
  \/ \E n \in RegBitIndexInputs : editRegBitIndex(n)
  \/ \E p \in RegPolarities : editRegPolarity(p)
  \/ \E a \in Actions : editAction(a)
  \/ \E s \in TargetScopes : editTargetScope(s)
  \/ \E v \in {""} \cup IdsOf(isrList) : editLinkedIsrId(v)

Next == CatalogNext \/ DraftNext

Spec == Init /\ [][Next]_vars

----------------------------------------------------------------------------
(* The whole App: the configuration form next to the other handlers *)

\* the App in either environment, the desktop application or a browser
InitApp ==
  /\ isElectron \in BOOLEAN
  /\ FormInit
  /\ ShellInit

ShellNext ==
  \/ handleSaveConfig
  \/ saveTimeout
  \/ handleOpenProject
  \/ \E path \in PathInputs : openDialogClosed(path)
  \/ openTreeLoaded
  \/ handleRunAnalysis
  \/ engineStep
  \/ \E written \in BOOLEAN : engineFinish(written)
  \/ onAnalysisProgress
  \/ onEngineReturned
  \/ \E result \in ReadResults : readFileContent(result)
  \/ onResultRead
  \/ \E file \in FileInputs : handleFileUpload(file)
  \/ readerLoaded
  \/ \E id \in SelectedIssue, st \in StatusInputs : handleUpdateStatus(id, st)

NextApp == CatalogNext \/ ShellNext

SpecApp == InitApp /\ [][NextApp]_vars

----------------------------------------------------------------------------
(* The read-only helpers applied to the rules a catalog can hold *)

\* a record without fields
NoFields == [k \in {} |-> ""]

\* the pattern values of a ControlRule
Patterns ==
  {"SIMPLE", "ARG_MATCH", "ARG_AS_ID", "WRITE_VAL", "BITWISE_MASK", "REG_BIT_MAPPING"}

\* the values of the optional fields of a ControlRule
ArgFields == {NoFields, [argIndex |-> 1]}
MatchFields == {NoFields, [matchValue |-> "-1"], [matchValue |-> "0xFE"]}
BitFields ==
  {NoFields, [regBitMode |-> "FIXED", regBitIndex |-> 5],
   [regBitMode |-> "DYNAMIC"], [regBitMode |-> "DYNAMIC", regBitIndex |-> 5]}
PolarityFields == {NoFields, [regPolarity |-> "1_DISABLES"], [regPolarity |-> "0_DISABLES"]}
LinkFields == {NoFields, [linkedIsrId |-> "2"], [linkedIsrId |-> "9"]}

\* the values of type ControlRule over these fields
RuleSpace ==
  { Merge(Merge(Merge(Merge(Merge(
      [id |-> "7", mode |-> m, identifier |-> "f", pattern |-> p,
       action |-> a, targetScope |-> s], af), mf), bf), pf), lf) :
      m \in {"FUNCTION", "REGISTER"}, p \in Patterns, a \in Actions,
      s \in TargetScopes, af \in ArgFields, mf \in MatchFields,
      bf \in BitFields, pf \in PolarityFields, lf \in LinkFields }

\* the settings view over the seeded ISRs and one rule of the rule space
InitRender ==
  /\ isElectron = TRUE
  /\ isrList = SeedIsrList
  /\ controlRules \in {<<rule>> : rule \in RuleSpace}
  /\ newISR = InitNewISR
  /\ newRule = InitNewRule
  /\ now = ClockStart
  /\ steps = 0
  /\ lastOp = [op |-> "init", arg |-> "", ok |-> TRUE, n |-> 0]
  /\ view = "settings"
  /\ projectPath = ""
  /\ issues = <<>>
  /\ isAnalyzing = FALSE
  /\ analysisProgress = 0
  /\ isSaved = FALSE
  /\ openCall = "idle"
  /\ runCall = "idle"
  /\ engine = -1
  /\ resultsFile = "absent"
  /\ ipc = <<>>
  /\ saveTimers = 0
  /\ reader = ""
  /\ rendered = [pass |-> "none"]

NextRender == renderRuleList \/ renderConfigPreview

SpecRender == InitRender /\ [][NextRender]_vars

----------------------------------------------------------------------------
(* The rule form over the numbers its number inputs deliver *)

\* parseInt(e.target.value) of an <input type="number"> without min or max
NumberInputs == {-1, 5, 64}

RuleFormNext ==
  \/ \E m \in {"FUNCTION", "REGISTER"} : switchMode(m)
  \/ \E v \in IdentifierInputs : editIdentifier(v)
  \/ \E p \in FunctionPatterns : editPattern(p)
  \/ \E n \in NumberInputs : editArgIndex(n)
  \/ \E b \in RegBitModes : editRegBitMode(b)
  \/ \E n \in NumberInputs : editRegBitIndex(n)
  \/ addRule

SpecRuleForm == Init /\ [][RuleFormNext]_vars

----------------------------------------------------------------------------
(* The two delete handlers over the ids they can be called with *)

\* the id argument (a string): an id of either catalog, or one of neither
DeleteIdInputs == IdsOf(isrList) \cup IdsOf(controlRules) \cup {"0"}

DeleteNext ==
  \/ \E v \in IdentifierInputs : editIdentifier(v)
  \/ \E s \in TargetScopes : editTargetScope(s)
  \/ \E v \in {""} \cup IdsOf(isrList) : editLinkedIsrId(v)
  \/ addRule
  \/ \E id \in DeleteIdInputs : deleteISR(id)
  \/ \E id \in DeleteIdInputs : deleteRule(id)

SpecDelete == Init /\ [][DeleteNext]_vars

----------------------------------------------------------------------------
(* The analysis run: the project is opened and the engine is run.  The     *)
(* timers of the engine fire, the main process answers every invoke and    *)
(* every message and reply in flight is delivered.                         *)

AnalysisNext ==
  \/ handleOpenProject
  \/ \E path \in PathInputs : openDialogClosed(path)
  \/ openTreeLoaded
  \/ handleRunAnalysis
  \/ engineStep
  \/ \E written \in BOOLEAN : engineFinish(written)
  \/ onAnalysisProgress
  \/ onEngineReturned
  \/ \E result \in ReadResults : readFileContent(result)
  \/ onResultRead

SpecAnalysis ==
  /\ InitApp
  /\ [][AnalysisNext]_vars
  /\ WF_vars(engineStep)
  /\ WF_vars(\E written \in BOOLEAN : engineFinish(written))
  /\ WF_vars(onAnalysisProgress)
  /\ WF_vars(onEngineReturned)
  /\ WF_vars(\E result \in ReadResults : readFileContent(result))
  /\ WF_vars(onResultRead)

----------------------------------------------------------------------------
(* Referential integrity of deleteISR *)

\* the step just taken was handler op
Ran(op) == steps' = steps + 1 /\ lastOp'.op = op

\* C1: immediately after deleteISR(X) no rule of the catalog has
\* linkedIsrId = X, and every rule that was linked to X has no linkedIsrId.
C1_ReferentialCascade ==
  [][Ran("deleteISR") =>
       /\ LinkedTo(controlRules', lastOp'.arg) = {}
       /\ \A i \in LinkedTo(controlRules, lastOp'.arg) :
            i \in DOMAIN controlRules' /\ ~Has(controlRules'[i], "linkedIsrId")]_vars

\* an ISR with at least one linked rule has just been deleted
C1_Witness == lastOp.op = "deleteISR" /\ lastOp.n >= 1

\* r and q agree on every field but linkedIsrId
SameButLink(r, q) == Without(r, "linkedIsrId") = Without(q, "linkedIsrId")

\* C2: deleteISR(X) keeps the length of the rule catalog and the rule ids in
\* order; rules not linked to X are unchanged and rules linked to X change
\* only in linkedIsrId.
C2_CascadeFrame ==
  [][Ran("deleteISR") =>
       /\ Len(controlRules') = Len(controlRules)
       /\ \A i \in DOMAIN controlRules :
            /\ controlRules'[i].id = controlRules[i].id
            /\ i \notin LinkedTo(controlRules, lastOp'.arg)
                 => controlRules'[i] = controlRules[i]
            /\ i \in LinkedTo(controlRules, lastOp'.arg)
                 => SameButLink(controlRules'[i], controlRules[i])]_vars

\* deleteISR ran on a catalog holding both linked and unlinked rules
C2_Witness ==
  /\ lastOp.op = "deleteISR"
  /\ lastOp.n >= 1
  /\ Len(controlRules) > lastOp.n

\* C3: the removal of ISR X and the clearing of the links to X are one
\* step: no step takes X out of the ISR catalog and leaves a rule linked to
\* X, and in the state deleteISR(X) produces both effects are visible.
C3_CascadeAtomic ==
  /\ [][\A x \in IdsOf(isrList) \ IdsOf(isrList') :
          /\ Len(controlRules') = Len(controlRules)
          /\ LinkedTo(controlRules', x) = {}]_vars
  /\ [](lastOp.op = "deleteISR" =>
          /\ lastOp.arg \notin IdsOf(isrList)
          /\ LinkedTo(controlRules, lastOp.arg) = {})

\* the deleted ISR is gone and a rule that was linked to it is still there
C3_Witness ==
  /\ lastOp.op = "deleteISR"
  /\ lastOp.n >= 1
  /\ lastOp.arg \notin IdsOf(isrList)
  /\ Len(controlRules) >= 3

----------------------------------------------------------------------------
(* Guards of the add operations *)

\* C4: addRule with an empty or missing identifier leaves both catalogs and
\* the draft rule unchanged, and every rule of the catalog has a non-empty
\* identifier.
C4_EmptyIdentifierRejected ==
  /\ [][(Ran("addRule") /\ Falsy(newRule, "identifier")) =>
          UNCHANGED <<controlRules, isrList, newRule>>]_vars
  /\ [](\A i \in DOMAIN controlRules : ~Falsy(controlRules[i], "identifier"))

\* addRule has just been rejected
C4_Witness == lastOp.op = "addRule" /\ ~lastOp.ok

----------------------------------------------------------------------------
(* Identifiers of catalog entries *)

\* the ids of a catalog are pairwise distinct
DistinctIds(list) ==
  \A i, j \in DOMAIN list : i # j => list[i].id # list[j].id

\* C5: in every reachable state the ids of the ISR catalog are pairwise
\* distinct and the ids of the control rule catalog are pairwise distinct.
C5_UniqueIds == DistinctIds(isrList) /\ DistinctIds(controlRules)

----------------------------------------------------------------------------
(* Target resolution *)

\* the dynamic-scope override as the data model states it
Override(rule) ==
  \/ Is(rule, "pattern", "ARG_AS_ID")
  \/ Is(rule, "mode", "REGISTER") /\ Is(rule, "regBitMode", "DYNAMIC")

\* the scope a target label stands for
ScopeOfLabel(label) ==
  IF label.kind = "text"
     /\ label.text \in {"Dynamic (By HW ID)", "Dynamic (By Bit Index)"}
  THEN "dynamic"
  ELSE IF label.kind = "text" /\ label.text = "Global" THEN "global"
  ELSE "specific"

LowerScope(scope) ==
  IF scope = "GLOBAL" THEN "global"
  ELSE IF scope = "SPECIFIC" THEN "specific"
  ELSE "invalid"

\* C6: a rule under the dynamic-scope override resolves to scope dynamic
\* whatever its targetScope and linkedIsrId; every other rule resolves to
\* its stored targetScope.
C6_DynamicScopeOverride ==
  \A i \in DOMAIN controlRules :
    LET rule == controlRules[i]
        scope == ScopeOfLabel(getLinkedIsrName(rule))
    IN IF Override(rule) THEN scope = "dynamic"
       ELSE Has(rule, "targetScope") /\ scope = LowerScope(rule.targetScope)

\* the catalog holds an overridden rule stored as SPECIFIC with a link to an
\* ISR of the catalog, and an overridden rule stored as GLOBAL
C6_Witness ==
  /\ \E i \in DOMAIN controlRules :
       /\ Override(controlRules[i])
       /\ Is(controlRules[i], "targetScope", "SPECIFIC")
       /\ Has(controlRules[i], "linkedIsrId")
       /\ controlRules[i].linkedIsrId \in IdsOf(isrList)
  /\ \E i \in DOMAIN controlRules : ~Override(controlRules[i])

\* the bit value that disables, as the rendered logic text states it
DisableValue(desc) == IF desc.logic = "1=Disable" THEN 1 ELSE 0

\* C7: for every REG_BIT_MAPPING rule the disabling bit value is 1 when
\* regPolarity = 1_DISABLES and 0 when regPolarity = 0_DISABLES, whatever
\* the action and the regBitMode of the rule.
C7_PolarityMapping ==
  \A i \in DOMAIN controlRules :
    Is(controlRules[i], "pattern", "REG_BIT_MAPPING") =>
      LET desc == renderRuleDescription(controlRules[i])
      IN /\ desc.kind = "bits"
         /\ Is(controlRules[i], "regPolarity", "1_DISABLES") => DisableValue(desc) = 1
         /\ Is(controlRules[i], "regPolarity", "0_DISABLES") => DisableValue(desc) = 0

\* the catalog holds an ENABLE rule on a fixed bit with polarity 1_DISABLES
\* next to the seeded ENABLE rule on a dynamic bit with polarity 0_DISABLES
C7_Witness ==
  /\ \E i \in DOMAIN controlRules :
       /\ Is(controlRules[i], "pattern", "REG_BIT_MAPPING")
       /\ Is(controlRules[i], "regPolarity", "1_DISABLES")
       /\ Is(controlRules[i], "regBitMode", "FIXED")
       /\ controlRules[i].action = "ENABLE"
  /\ \E i \in DOMAIN controlRules :
       /\ Is(controlRules[i], "pattern", "REG_BIT_MAPPING")
       /\ Is(controlRules[i], "regPolarity", "0_DISABLES")
       /\ Is(controlRules[i], "regBitMode", "DYNAMIC")

\* a is b with some entries removed, the rest in the same order and equal
\* up to linkedIsrId
RECURSIVE IsOrderedRest(_, _)
IsOrderedRest(a, b) ==
  IF a = <<>> THEN TRUE
  ELSE IF b = <<>> THEN FALSE
  ELSE IF SameButLink(Head(a), Head(b)) THEN IsOrderedRest(Tail(a), Tail(b))
  ELSE IsOrderedRest(a, Tail(b))

\* C8: addRule appends exactly one rule at the end of the catalog, no
\* operation reorders the remaining rules, and the emitted rule list has one
\* entry per catalog rule in catalog order.
C8_OrderPreserved ==
  /\ [][IF Ran("addRule") /\ lastOp'.ok
        THEN /\ Len(controlRules') = Len(controlRules) + 1
             /\ SubSeq(controlRules', 1, Len(controlRules)) = controlRules
        ELSE IsOrderedRest(controlRules', controlRules)]_vars
  /\ [](/\ Len(ConfigPreview.rules) = Len(controlRules)
        /\ \A i \in DOMAIN controlRules :
             /\ ConfigPreview.rules[i].id.s = controlRules[i].id
             /\ ConfigPreview.rules[i].identifier.s = controlRules[i].identifier)

\* a rule was appended behind the remaining seed rule after a deletion
C8_Witness ==
  /\ lastOp.op = "addRule"
  /\ lastOp.ok
  /\ Len(controlRules) = 2
  /\ controlRules[1].id = "5"
  /\ controlRules[2].id = lastOp.arg

\* a SPECIFIC rule outside the override whose link is cleared, empty or stale
UnresolvedSpecific(rule) ==
  /\ ~Override(rule)
  /\ Is(rule, "targetScope", "SPECIFIC")
  /\ Falsy(rule, "linkedIsrId") \/ rule.linkedIsrId \notin IdsOf(isrList)

\* C9: a SPECIFIC rule outside the override whose linkedIsrId is undefined
\* or matches no ISR still resolves, to scope specific without a target ISR,
\* and is still emitted.
C9_UnresolvedSpecific ==
  \A i \in DOMAIN controlRules :
    UnresolvedSpecific(controlRules[i]) =>
      LET label == getLinkedIsrName(controlRules[i])
      IN /\ ScopeOfLabel(label) = "specific"
         /\ label.kind \in {"text", "unknown"}
         /\ i \in DOMAIN ConfigPreview.rules
         /\ ConfigPreview.rules[i].id.s = controlRules[i].id
         /\ "target_hw_id" \notin DOMAIN ConfigPreview.rules[i]

\* ISR '2' was deleted while a SPECIFIC rule was linked to it, and the rule
\* is unresolved now
C9_Witness ==
  /\ lastOp.op = "deleteISR"
  /\ lastOp.arg = "2"
  /\ lastOp.n >= 1
  /\ \E i \in DOMAIN controlRules :
       UnresolvedSpecific(controlRules[i]) /\ ~Has(controlRules[i], "linkedIsrId")

----------------------------------------------------------------------------
(* Emitted hardware ids *)

----------------------------------------------------------------------------
(* The match of a rule, read off its description and its emitted entry *)

\* the description of the rule changes whenever field k changes
Shows(rule, k, values) ==
  \A v, w \in values :
    v # w => renderRuleDescription(Merge(rule, k :> v))
               # renderRuleDescription(Merge(rule, k :> w))

\* the description of the rule is the same whatever field k holds
Ignores(rule, k, values) ==
  \A v, w \in values :
    renderRuleDescription(Merge(rule, k :> v))
      = renderRuleDescription(Merge(rule, k :> w))

\* the patterns of register mode
RegisterPatterns == {"REG_BIT_MAPPING", "WRITE_VAL", "BITWISE_MASK"}

\* the pattern of the rule is one of its mode
ValidPattern(rule) ==
  \/ Is(rule, "mode", "FUNCTION") /\ rule.pattern \in FunctionPatterns
  \/ Is(rule, "mode", "REGISTER") /\ rule.pattern \in RegisterPatterns

----------------------------------------------------------------------------
(* What the emitted document and the rule list depend on *)

\* the rows of the rule list
Rows == [i \in DOMAIN controlRules |-> RuleRow(controlRules[i])]

\* C12: a step that leaves both catalogs unchanged leaves the emitted
\* document and the rows of the rule list unchanged, whatever it does to the
\* drafts, the clock, the issue list and the view; a step that leaves the
\* rule catalog unchanged leaves the emitted rule list unchanged.
C12_OutputOfCatalogsOnly ==
  /\ [][UNCHANGED <<isrList, controlRules>> =>
          ConfigPreview' = ConfigPreview /\ Rows' = Rows]_vars
  /\ [][controlRules' = controlRules =>
          ConfigPreview'.rules = ConfigPreview.rules]_vars

\* the draft rule, the clock, the issue list and the view have all changed
\* while the rule catalog is the seeded one
C12_Witness ==
  /\ newRule # InitNewRule
  /\ now > ClockStart
  /\ issues # <<>>
  /\ view # "dashboard"
  /\ controlRules = SeedControlRules

\* C13: a render pass, over the rule list or over the preview, leaves the
\* ISR catalog and the control rule catalog unchanged, in any order and any
\* number of passes.
C13_ReadsLeaveCatalogs ==
  [][rendered' # rendered => UNCHANGED <<isrList, controlRules>>]_vars

\* the rule list was rendered over a rule whose link is stale
C13_Witness ==
  /\ rendered.pass = "rules"
  /\ rendered.rows[1].target.kind = "unknown"
  /\ Has(controlRules[1], "linkedIsrId")

\* C14: the emitted interrupt list has one entry per ISR of the catalog in
\* catalog order, each carrying the functionName, the hardware id and the
\* priority of its ISR; addISR appends at the end and every other step keeps
\* the remaining ISRs in their order.
C14_IsrListProjected ==
  /\ [][IF Ran("addISR") /\ lastOp'.ok
        THEN /\ Len(isrList') = Len(isrList) + 1
             /\ SubSeq(isrList', 1, Len(isrList)) = isrList
             /\ isrList'[Len(isrList')].id = lastOp'.arg
        ELSE IsOrderedRest(isrList', isrList)]_vars
  /\ [](/\ Len(ConfigPreview.isrs) = Len(isrList)
        /\ \A i \in DOMAIN isrList :
             /\ ConfigPreview.isrs[i].id.s = isrList[i].id
             /\ ConfigPreview.isrs[i].functionName.s = isrList[i].functionName
             /\ ConfigPreview.isrs[i].hardwareId.s = isrList[i].hardwareId
             /\ ConfigPreview.isrs[i].priority.n = isrList[i].priority)

\* an ISR was appended behind ISR '2' after ISR '1' was deleted
C14_Witness ==
  /\ lastOp.op = "addISR"
  /\ lastOp.ok
  /\ Len(isrList) = 2
  /\ isrList[1].id = "2"
  /\ isrList[2].id = lastOp.arg
  /\ isrList[2].functionName = "TIM2_IRQHandler"

----------------------------------------------------------------------------
(* Catalog invariants and frames *)

\* C15: every rule of the catalog has a pattern of its mode: a function
\* rule one of SIMPLE, ARG_MATCH, ARG_AS_ID and a register rule one of
\* REG_BIT_MAPPING, WRITE_VAL, BITWISE_MASK.
C15_PatternValidForMode ==
  \A i \in DOMAIN controlRules : ValidPattern(controlRules[i])

\* a register rule and a function rule with an argument pattern are in the
\* catalog, the register rule added through the form
C15_Witness ==
  /\ lastOp.op = "addRule"
  /\ lastOp.ok
  /\ \E i \in DOMAIN controlRules :
       /\ controlRules[i].id = lastOp.arg
       /\ controlRules[i].mode = "REGISTER"
       /\ newRule.mode = "REGISTER"
  /\ \E i \in DOMAIN controlRules :
       controlRules[i].mode = "FUNCTION" /\ controlRules[i].pattern = "ARG_MATCH"

\* C16: the catalogs start as the seed; the ISR catalog changes only in
\* addISR and deleteISR and the rule catalog only in addRule, deleteRule and
\* deleteISR; every other step, of the forms or of the rest of the App,
\* leaves both unchanged.
C16_CatalogsChangeOnlyByAddDelete ==
  /\ IdsOf(isrList) = {"1", "2"} /\ IdsOf(controlRules) = {"1", "5"}
  /\ [][isrList' # isrList => Ran("addISR") \/ Ran("deleteISR")]_vars
  /\ [][controlRules' # controlRules =>
          Ran("addRule") \/ Ran("deleteRule") \/ Ran("deleteISR")]_vars

\* a project was opened and analysed, and the catalogs are still the seed
C16_Witness ==
  /\ projectPath # ""
  /\ issues = EngineIssues
  /\ analysisProgress = 100
  /\ isrList = SeedIsrList
  /\ controlRules = SeedControlRules

\* C17: every rule of the catalog resolves to a description, a target label
\* and an emitted entry; no rule ends in an error, whether optional fields
\* are missing, values are not numeric or the link is stale or cleared.
C17_ResolutionTotal ==
  /\ Len(ConfigPreview.rules) = Len(controlRules)
  /\ \A i \in DOMAIN controlRules :
       LET row == RuleRow(controlRules[i])
       IN /\ row.description.kind \in {"text", "bits"}
          /\ row.target.kind \in {"text", "link", "unknown"}
          /\ DOMAIN ConfigPreview.rules[i] = DOMAIN controlRules[i]

\* the catalog holds a rule with a stale link, a register rule without
\* regBitIndex and a rule without regBitMode
C17_Witness ==
  /\ \E i \in DOMAIN controlRules :
       /\ Has(controlRules[i], "linkedIsrId")
       /\ controlRules[i].linkedIsrId \notin IdsOf(isrList)
       /\ RuleRow(controlRules[i]).target.kind = "unknown"
  /\ \E i \in DOMAIN controlRules :
       /\ controlRules[i].pattern = "REG_BIT_MAPPING"
       /\ ~Has(controlRules[i], "regBitIndex")
  /\ \E i \in DOMAIN controlRules : ~Has(controlRules[i], "regBitMode")

\* C18: addISR with an empty or missing functionName leaves the ISR catalog
\* and the draft ISR unchanged, and every ISR of the catalog has a non-empty
\* functionName.
C18_EmptyFunctionNameRejected ==
  /\ [][(Ran("addISR") /\ Falsy(newISR, "functionName")) =>
          UNCHANGED <<isrList, newISR>>]_vars
  /\ [](\A i \in DOMAIN isrList : ~Falsy(isrList[i], "functionName"))

\* addISR has just been rejected on a draft that has other fields filled in
C18_Witness ==
  /\ lastOp.op = "addISR"
  /\ ~lastOp.ok
  /\ Falsy(newISR, "functionName")
  /\ newISR.hardwareId # <<>>

----------------------------------------------------------------------------
(* The label of a rule whose ISR was deleted *)

\* a SPECIFIC rule outside the override
PlainSpecific(rule) == Is(rule, "targetScope", "SPECIFIC") /\ ~Override(rule)

\* C19 as stated: after deleteISR(X) every SPECIFIC rule that was linked to
\* X shows the unknown-ISR marker.
C19_SurfacedUnknown ==
  [][Ran("deleteISR") =>
       \A i \in LinkedTo(controlRules, lastOp'.arg) :
         PlainSpecific(controlRules[i]) =>
           getLinkedIsrName(controlRules[i])'.kind = "unknown"]_vars

\* C19 amended: after deleteISR(X) every SPECIFIC rule that was linked to X
\* shows the fallback text, its targetDetail or 'Specific'; the unknown-ISR
\* marker is the label of exactly the SPECIFIC rules outside the override
\* whose linkedIsrId is non-empty and matches no ISR.
C19_SurfacedFallback ==
  /\ [][Ran("deleteISR") =>
          \A i \in LinkedTo(controlRules, lastOp'.arg) :
            PlainSpecific(controlRules[i]) =>
              getLinkedIsrName(controlRules[i])' =
                [kind |-> "text",
                 text |-> IF ~Falsy(controlRules[i], "targetDetail")
                          THEN controlRules[i].targetDetail ELSE "Specific"]]_vars
  /\ [](\A i \in DOMAIN controlRules :
          getLinkedIsrName(controlRules[i]).kind = "unknown" <=>
            /\ PlainSpecific(controlRules[i])
            /\ ~Falsy(controlRules[i], "linkedIsrId")
            /\ controlRules[i].linkedIsrId \notin IdsOf(isrList))

\* the ISR of a linked SPECIFIC rule was just deleted and the rule shows
\* 'Specific'
C19_Witness ==
  /\ lastOp.op = "deleteISR"
  /\ lastOp.n >= 1
  /\ \E i \in DOMAIN controlRules :
       /\ PlainSpecific(controlRules[i])
       /\ ~Has(controlRules[i], "linkedIsrId")
       /\ controlRules[i].id \notin {"1", "5"}
       /\ getLinkedIsrName(controlRules[i]) = [kind |-> "text", text |-> "Specific"]

----------------------------------------------------------------------------
(* What addRule checks *)

\* the fields of the draft rule that addRule copies
CopiedFields ==
  {"mode", "identifier", "pattern", "argIndex", "matchValue", "regBitMode",
   "regBitIndex", "regPolarity", "action", "targetScope", "linkedIsrId"}

\* C20: addRule on a draft with a non-empty identifier succeeds whatever
\* the other fields hold: it appends exactly one rule, and the rule has
\* every copied field the draft has, with the value of the draft.
C20_IdentifierOnlyGuard ==
  [][(Ran("addRule") /\ ~Falsy(newRule, "identifier")) =>
       /\ lastOp'.ok
       /\ Len(controlRules') = Len(controlRules) + 1
       /\ SubSeq(controlRules', 1, Len(controlRules)) = controlRules
       /\ LET rule == controlRules'[Len(controlRules')]
          IN \A k \in CopiedFields :
               /\ Has(rule, k) <=> Has(newRule, k)
               /\ Has(newRule, k) => rule[k] = newRule[k]]_vars

\* a register rule with action ENABLE and polarity 1_DISABLES, scope
\* SPECIFIC and no target ISR was just stored
C20_Witness ==
  /\ lastOp.op = "addRule"
  /\ lastOp.ok
  /\ LET rule == controlRules[Len(controlRules)]
     IN /\ rule.id = lastOp.arg
        /\ rule.mode = "REGISTER"
        /\ rule.action = "ENABLE"
        /\ Is(rule, "regPolarity", "1_DISABLES")
        /\ rule.targetScope = "SPECIFIC"
        /\ ~Has(rule, "linkedIsrId")

----------------------------------------------------------------------------
(* Ranges of the numeric fields *)

\* C21: every rule of the catalog that has a regBitIndex has it in 0..63,
\* and every rule that has an argIndex has a non-negative one.
C21_IndexRanges ==
  \A i \in DOMAIN controlRules :
    /\ Has(controlRules[i], "regBitIndex") => controlRules[i].regBitIndex \in 0..63
    /\ Has(controlRules[i], "argIndex") => controlRules[i].argIndex \in Nat

----------------------------------------------------------------------------
(* The generated targetDetail *)

\* the two rules carry the same targetDetail, or both none
SameDetail(r, q) ==
  /\ Has(r, "targetDetail") <=> Has(q, "targetDetail")
  /\ Has(r, "targetDetail") => r.targetDetail = q.targetDetail

\* the text a REG_BIT_MAPPING rule is given, by bit mode, bit index and polarity
BitDetailText(bitMode, bitIndex, polarity) ==
  CASE bitMode = "DYNAMIC" /\ polarity = "1_DISABLES" -> "Bit N (1 << N) [Active Low]"
    [] bitMode = "DYNAMIC" /\ polarity # "1_DISABLES" -> "Bit N (1 << N) [Active High]"
    [] bitMode # "DYNAMIC" /\ polarity = "1_DISABLES" -> "Bit " \o ToString(bitIndex) \o " (1=Off)"
    [] OTHER -> "Bit " \o ToString(bitIndex) \o " (0=Off)"

\* C22: addRule stores, for a draft without targetDetail and without a target
\* ISR, 'Dynamic (Matches HW ID)' when the pattern is ARG_AS_ID, a text of
\* regBitMode, regBitIndex and regPolarity when it is REG_BIT_MAPPING, and no
\* targetDetail for any other pattern; for a draft with a target ISR or a
\* targetDetail it stores the targetDetail of the draft; and no later step
\* changes the targetDetail of a stored rule.
C22_DetailAtCreation ==
  /\ [][Ran("addRule") /\ lastOp'.ok =>
          LET stored == controlRules'[Len(controlRules')]
          IN IF Falsy(newRule, "targetDetail") /\ Falsy(newRule, "linkedIsrId")
             THEN CASE newRule.pattern = "ARG_AS_ID" ->
                         Is(stored, "targetDetail", "Dynamic (Matches HW ID)")
                    [] newRule.pattern = "REG_BIT_MAPPING" ->
                         Is(stored, "targetDetail",
                            BitDetailText(newRule.regBitMode, newRule.regBitIndex,
                                          newRule.regPolarity))
                    [] OTHER -> Falsy(stored, "targetDetail")
             ELSE SameDetail(stored, newRule)]_vars
  /\ [][\A i \in DOMAIN controlRules' :
          \/ Ran("addRule") /\ lastOp'.ok /\ i = Len(controlRules')
          \/ \E j \in DOMAIN controlRules :
               /\ controlRules[j].id = controlRules'[i].id
               /\ SameDetail(controlRules[j], controlRules'[i])]_vars

\* a rule was stored with the text generated for fixed bit 5, and a later
\* step has been taken
C22_Witness ==
  /\ lastOp.op # "addRule"
  /\ \E i \in DOMAIN controlRules :
       /\ controlRules[i].id \notin {"1", "5"}
       /\ Is(controlRules[i], "targetDetail", "Bit 5 (1=Off)")

----------------------------------------------------------------------------
(* The match description by pattern *)

----------------------------------------------------------------------------
(* Links of stored rules over all histories *)

\* C24: in every reachable state every rule of the catalog with a target ISR
\* chosen (a non-empty linkedIsrId) refers to an ISR of the ISR catalog.
C24_LinkIntegrity ==
  \A i \in DOMAIN controlRules :
    ~Falsy(controlRules[i], "linkedIsrId") =>
      controlRules[i].linkedIsrId \in IdsOf(isrList)

----------------------------------------------------------------------------
(* Where a link can be stored *)

\* C25: a rule of the catalog carries a non-empty linkedIsrId only if its
\* targetScope is SPECIFIC and it is not under the dynamic override.
C25_LinkOnlyWhenSpecific ==
  \A i \in DOMAIN controlRules :
    ~Falsy(controlRules[i], "linkedIsrId") =>
      /\ controlRules[i].targetScope = "SPECIFIC"
      /\ ~Override(controlRules[i])

----------------------------------------------------------------------------
(* The patterns the form stores *)

\* C26: every register-mode rule of the catalog has pattern REG_BIT_MAPPING,
\* no rule has pattern WRITE_VAL or BITWISE_MASK, and no function-mode rule
\* has pattern REG_BIT_MAPPING.
C26_FormStoresBitMappings ==
  \A i \in DOMAIN controlRules :
    /\ controlRules[i].mode = "REGISTER" => controlRules[i].pattern = "REG_BIT_MAPPING"
    /\ controlRules[i].mode = "FUNCTION" => controlRules[i].pattern # "REG_BIT_MAPPING"
    /\ controlRules[i].pattern \notin {"WRITE_VAL", "BITWISE_MASK"}

\* a second rule has just been added in register mode, from the draft the
\* first addRule left behind
C26_Witness ==
  /\ lastOp.op = "addRule" /\ lastOp.ok
  /\ Len(controlRules) = Len(SeedControlRules) + 2
  /\ controlRules[Len(controlRules)].mode = "REGISTER"
  /\ controlRules[Len(controlRules) - 1].mode = "REGISTER"

----------------------------------------------------------------------------
(* The target ISR selector of the form *)

\* C27: the form shows the target ISR selector for the draft exactly when the
\* draft's targetScope is SPECIFIC and the dynamic override, as applied to
\* stored rules, does not hold for the draft.
C27_SelectorIffSpecific ==
  LinkSelectorShown(newRule) <=>
    (newRule.targetScope = "SPECIFIC" /\ ~Override(newRule))

----------------------------------------------------------------------------
(* Frame of deleteRule *)

\* the positions of the rules whose id is not id
KeptPositions(rules, id) == {i \in DOMAIN rules : rules[i].id # id}

\* the k-th of these positions, counted from the front
KeptPosition(rules, id, k) ==
  CHOOSE i \in KeptPositions(rules, id) :
    Cardinality({j \in KeptPositions(rules, id) : j <= i}) = k

\* C28: deleteRule(id) removes every rule whose id is id and nothing else:
\* the other rules stay as they were and in their order, the ISR catalog and
\* the two drafts are unchanged; deleteRule with an id of no rule, and
\* deleteISR with an id that no ISR has and no rule links to, leave both
\* catalogs unchanged.
C28_DeleteRuleFrame ==
  /\ [][Ran("deleteRule") =>
          LET id == lastOp'.arg
          IN /\ Len(controlRules') = Cardinality(KeptPositions(controlRules, id))
             /\ \A k \in DOMAIN controlRules' :
                  controlRules'[k] = controlRules[KeptPosition(controlRules, id, k)]
             /\ UNCHANGED <<isrList, newISR, newRule>>
             /\ id \notin IdsOf(controlRules) => UNCHANGED controlRules]_vars
  /\ [][Ran("deleteISR") /\ lastOp'.arg \notin IdsOf(isrList)
                         /\ LinkedTo(controlRules, lastOp'.arg) = {}
          => UNCHANGED <<isrList, controlRules>>]_vars

\* deleteRule has just removed the first rule of a catalog of three: the
\* second seed and an added rule remain, in this order
C28_Witness ==
  /\ lastOp.op = "deleteRule" /\ lastOp.arg = "1"
  /\ Len(controlRules) = 2
  /\ controlRules[1].id = "5"
  /\ controlRules[2].id \notin {"1", "5"}

----------------------------------------------------------------------------
(* The analysis run *)

\* the progress values in the order they are shown, from the 0 of the start
ProgressOrder == <<0, 10, 30, 50, 70, 90, 100>>

\* handleRunAnalysis starts a run in this step
StartsRun == ~isAnalyzing /\ isAnalyzing'

\* the 100 % event of the running engine has been sent: it is in flight or
\* already shown
HundredSent ==
  \/ analysisProgress = 100
  \/ \E k \in DOMAIN ipc : ipc[k].type = "progress" /\ ipc[k].progress = 100

C30_RunEnds ==
  /\ isAnalyzing ~> ~isAnalyzing
  /\ [](runCall = "idle" => ~isAnalyzing)
  /\ [][runCall' # runCall =>
          IF runCall = "parsing" /\ Head(ipc).result = "issues"
          THEN issues' = EngineIssues /\ view' = "issues"
          ELSE UNCHANGED <<issues, view>>]_vars

\* a run has ended without a result: the engine call was rejected, or the
\* results file could not be parsed or held no issues
C30_Witness ==
  /\ lastOp.op = "handleRunAnalysis"
  /\ runCall = "idle"
  /\ ~isAnalyzing
  /\ view = "code"
  /\ issues = <<>>

====
